---- MODULE Spec2Model ----
(***************************************************************************)
(* The build script of the repository (src/src/main.rs): read the manifest *)
(* src/SUMMARY.md, move every file it names from <root>/<path> to          *)
(* <root>/src/<path>, run "mdbook build", and move the files back.         *)
(*                                                                         *)
(* Text is a sequence of bytes (one-character strings; "LF", "CR" are the  *)
(* line feed and the carriage return, "C3" "A9" the two bytes of one       *)
(* non-ASCII character).  A filesystem path is a sequence of components,   *)
(* each a sequence of bytes, counted from the filesystem root "/".  The    *)
(* filesystem is the pair files (path -> identity of the regular file      *)
(* there) and dirs (the set of directories); rename and create_dir_all     *)
(* follow POSIX.  Symbolic links and ".." components are outside the       *)
(* model: no input of the model holds one.                                 *)
(***************************************************************************)
EXTENDS Integers, Sequences, FiniteSets, TLC

VARIABLES pc, root, scontent, paths, old_paths, new_paths, i,
          files, dirs, files0, dirs0, trace

vars == <<pc, root, scontent, paths, old_paths, new_paths, i,
          files, dirs, files0, dirs0, trace>>

\* ------------------------------------------------------------------ bounds

\* Lines of a manifest of the program runs (Spec).
MaxLines == 3
\* Bytes of the free line of a manifest handed to the parser alone (SpecParse).
MaxLineLen == 5

\* ------------------------------------------------------------ text helpers

Min(S) == CHOOSE x \in S : \A y \in S : x <= y

IsPrefix(p, q) == Len(p) <= Len(q) /\ SubSeq(q, 1, Len(p)) = p

\* str::find: the 0-based byte index of the first match, -1 for None.
find(s, pat) ==
    LET hits == {k \in 1..(Len(s) - Len(pat) + 1) : SubSeq(s, k, k + Len(pat) - 1) = pat}
    IN  IF hits = {} THEN -1 ELSE Min(hits) - 1

\* str::is_char_boundary: byte offset idx starts a character or ends the string.
is_char_boundary(s, idx) ==
    \/ idx = 0
    \/ idx = Len(s)
    \/ idx < Len(s) /\ s[idx + 1] # "A9"

\* str::lines (line 46): split after every LF; a line loses its LF and then a CR
\* right before that LF; a last line without LF is kept as it is; no empty last line.
RECURSIVE lines(_)
lines(text) ==
    IF text = <<>> THEN <<>>
    ELSE LET nl == find(text, <<"LF">>)
         IN  IF nl = -1 THEN <<text>>
             ELSE LET raw  == SubSeq(text, 1, nl)
                      line == IF Len(raw) > 0 /\ raw[Len(raw)] = "CR"
                              THEN SubSeq(raw, 1, Len(raw) - 1) ELSE raw
                  IN  <<line>> \o lines(SubSeq(text, nl + 2, Len(text)))

\* The marker of line 47.
Marker == <<"(", ".", "/">>

\* line_path with the marker test lost: a line without the marker is pushed whole.
line_path_whole(line) ==
    LET index == find(line, Marker)
    IN  IF index = -1 THEN [kind |-> "push", path |-> line]
        ELSE LET path == SubSeq(line, index + 3 + 1, Len(line))
             IN  IF Len(path) = 0 THEN [kind |-> "panic", path |-> <<>>]
                 ELSE IF ~is_char_boundary(path, Len(path) - 1)
                      THEN [kind |-> "panic", path |-> <<>>]
                      ELSE [kind |-> "push", path |-> SubSeq(path, 1, Len(path) - 1)]

\* Lines 47-50 on one line: "skip" (no marker), "push" (a path is pushed) or
\* "panic".  path.len()-1 on an empty path overflows usize: a debug build panics
\* on the subtraction, a release build wraps to usize::MAX and the slice panics
\* on its range; a cut inside a multi-byte character panics as well.
line_path(line) ==
    LET index == find(line, Marker)
    IN  IF index = -1 THEN [kind |-> "skip", path |-> <<>>]
        ELSE LET path == SubSeq(line, index + 3 + 1, Len(line))
             IN  IF Len(path) = 0 THEN [kind |-> "panic", path |-> <<>>]
                 ELSE IF ~is_char_boundary(path, Len(path) - 1)
                      THEN [kind |-> "panic", path |-> <<>>]
                      ELSE [kind |-> "push", path |-> SubSeq(path, 1, Len(path) - 1)]

\* The loop of lines 45-52 over the lines ls, from the paths collected so far.
RECURSIVE collect(_, _)
collect(ls, acc) ==
    IF ls = <<>> THEN [ok |-> TRUE, paths |-> acc]
    ELSE LET r == line_path(Head(ls))
         IN  CASE r.kind = "panic" -> [ok |-> FALSE, paths |-> acc]
               [] r.kind = "skip"  -> collect(Tail(ls), acc)
               [] OTHER            -> collect(Tail(ls), Append(acc, r.path))

\* file_paths (lines 35-53) on the text read from the manifest.
file_paths(text) == collect(lines(text), <<>>)

\* ------------------------------------------------------------------- paths

Src == <<"s", "r", "c">>
SummaryName == <<"S", "U", "M", "M", "A", "R", "Y", ".", "m", "d">>
\* The working directory of the run, /r.
Cwd == <<<<"r">>>>

\* Path::components of a path string: split at "/", empty and "." components
\* dropped (every use is below an absolute base).
RECURSIVE Components(_)
Components(s) ==
    IF s = <<>> THEN <<>>
    ELSE LET sl    == find(s, <<"/">>)
             first == IF sl = -1 THEN s ELSE SubSeq(s, 1, sl)
             rest  == IF sl = -1 THEN <<>> ELSE SubSeq(s, sl + 2, Len(s))
         IN  (IF first = <<>> \/ first = <<".">> THEN <<>> ELSE <<first>>)
                 \o Components(rest)

IsAbsolute(s) == Len(s) > 0 /\ s[1] = "/"

\* PathBuf::push (lines 63, 65, 66): a relative path is appended, an absolute
\* path replaces the base.
push(base, s) == IF IsAbsolute(s) THEN Components(s) ELSE base \o Components(s)

\* old and new of lines 62-66 for the manifest path s.
OldOf(rt, s) == push(rt, s)
\* new without the push of "src" (line 65).
NewOf_flat(rt, s) == push(rt, s)
NewOf(rt, s) == push(push(rt, Src), s)

\* summary_path of lines 54-56.
SummaryPath(rt) == push(push(rt, Src), SummaryName)

\* Path::parent (line 67): None for the filesystem root.
parent(p) ==
    IF p = <<>> THEN [some |-> FALSE, v |-> <<>>]
    ELSE [some |-> TRUE, v |-> SubSeq(p, 1, Len(p) - 1)]

\* -------------------------------------------------------------- filesystem

Prefixes(p) == {SubSeq(p, 1, n) : n \in 0..Len(p)}

\* std::fs::create_dir_all (line 67): every missing directory down to p is
\* created; it fails when a regular file is in the way.
create_dir_all(f, d, p) ==
    IF \E q \in Prefixes(p) : q \in DOMAIN f
    THEN [ok |-> FALSE, dirs |-> d]
    ELSE [ok |-> TRUE, dirs |-> d \cup Prefixes(p)]

\* MoveFile leaving the source in place: a copy.
MoveFile_copy(f, old, new) ==
    [p \in (DOMAIN f) \cup {new} |-> IF p = new THEN f[old] ELSE f[p]]

\* The regular files after the file at old has been renamed to new, replacing
\* what was there.
MoveFile(f, old, new) ==
    [p \in ((DOMAIN f) \ {old}) \cup {new} |-> IF p = new THEN f[old] ELSE f[p]]

\* std::fs::rename (lines 69, 79), POSIX rename(2): a missing source fails; a
\* regular file replaces a regular file at the target and fails on a directory
\* there; a directory moves with everything below it, onto nothing or onto an
\* empty directory, and never into itself; a path renamed to itself stays.
rename(f, d, old, new) ==
    LET fail    == [ok |-> FALSE, files |-> f, dirs |-> d]
        same    == [ok |-> TRUE, files |-> f, dirs |-> d]
        Move(p) == IF IsPrefix(old, p)
                   THEN new \o SubSeq(p, Len(old) + 1, Len(p)) ELSE p
        nonEmpty(q) == \E p \in (DOMAIN f) \cup d : p # q /\ IsPrefix(q, p)
    IN  CASE old \notin DOMAIN f /\ old \notin d -> fail
          [] old = <<>> \/ new = <<>> -> fail
          [] old = new -> same
          [] SubSeq(new, 1, Len(new) - 1) \notin d -> fail
          [] old \in DOMAIN f ->
                IF new \in d THEN fail
                ELSE [ok |-> TRUE, files |-> MoveFile(f, old, new), dirs |-> d]
          [] OTHER ->
                IF \/ new \in DOMAIN f
                   \/ IsPrefix(old, new)
                   \/ new \in d /\ nonEmpty(new)
                THEN fail
                ELSE [ok |-> TRUE,
                      files |-> [q \in {Move(p) : p \in DOMAIN f} |->
                                    f[CHOOSE p \in DOMAIN f : Move(p) = q]],
                      dirs |-> {Move(p) : p \in d}]

\* ------------------------------------------------------------------ inputs

\* A manifest line naming the path p, "- [a](./p)".
Entry(p) == <<"-", " ", "[", "a", "]">> \o Marker \o p \o <<")">>

PathA   == <<"a">>
PathSA  == Src \o <<"/", "a">>
PathDA  == <<"d", "/", "a">>
PathD   == <<"d">>
PathSDA == Src \o <<"/", "d", "/", "a">>
PathAbs == <<"/", "r", "/", "a">>

\* The lines of the manifests of Spec: six entries, a line without the marker
\* and a line that ends with the marker.
SpecLines ==
    {Entry(PathA), Entry(PathDA), Entry(PathSA), Entry(PathD), Entry(PathSDA),
     Entry(PathAbs),
     <<"#", " ", "a">>, <<"a">> \o Marker}

RECURSIVE SeqsUpTo(_, _)
SeqsUpTo(S, n) ==
    IF n = 0 THEN {<<>>}
    ELSE LET shorter == SeqsUpTo(S, n - 1)
         IN  shorter \cup {Append(q, x) : q \in {r \in shorter : Len(r) = n - 1}, x \in S}

\* The text of a file whose lines are ls, each ended by LF.
RECURSIVE Text(_)
Text(ls) == IF ls = <<>> THEN <<>> ELSE Head(ls) \o <<"LF">> \o Text(Tail(ls))

SpecTexts == {Text(ls) : ls \in SeqsUpTo(SpecLines, MaxLines)}

\* Where a regular file may lie before the run, and the directory /r/d.
FileLocs ==
    {Cwd \o <<PathA>>, Cwd \o <<PathD, PathA>>, Cwd \o <<Src, PathA>>,
     Cwd \o <<Src, PathD, PathA>>}
DirD == Cwd \o <<PathD>>

\* The renderer's output.
BookDir == Cwd \o <<<<"b", "o", "o", "k">>>>
BookFile == BookDir \o <<<<"i">>>>

Layout(fs, withD, withSummary) ==
    LET all == fs \cup (IF withSummary THEN {SummaryPath(Cwd)} ELSE {})
    IN  [files |-> [p \in all |-> p],
         dirs  |-> UNION {Prefixes(SubSeq(p, 1, Len(p) - 1)) : p \in all}
                     \cup Prefixes(Cwd \o <<Src>>)
                     \cup (IF withD THEN {DirD} ELSE {})]

\* ------------------------------------------------------------ the program

\* One step of the run as the trace records it: the operation, the manifest
\* entry it is for (0: none), whether the source of a move existed when it was
\* attempted, and whether the operation succeeded.
Ev(op, k, src, ok) == [op |-> op, k |-> k, src |-> src, ok |-> ok]

\* The assertion of line 27 lost: any status wait returns is taken.
StatusOk_unchecked(status) == status # "waitfail"

\* Line 27: assert!(ecode.success()).
StatusOk(status) == status = "success"

\* The expect of line 70 lost: the loop goes on after a failed rename.
MoveOk_ignored(mv) == TRUE

\* Lines 69-70: the loop goes on only when the rename succeeded.
MoveOk(mv) == mv.ok

\* The loop left after its first entry.
AfterRelocate_first(k) == "spawn"

\* The for loop of line 61 after entry k has been moved: the next entry, or the
\* return of line 74 and the spawn of line 24.
AfterRelocate(k) == IF k = Len(paths) THEN "spawn" ELSE "relocate"

\* The expect of line 80 lost: the loop goes on after a failed move-back.
AfterBack_ignored(ok, k) == IF k = Len(old_paths) THEN "done" ELSE "restore"

\* Lines 78-81 after the move-back of entry k: the expect of line 80 panics on a
\* failure; otherwise the next entry, or the return to main (line 9).
AfterBack(ok, k) ==
    IF ~ok THEN "aborted" ELSE IF k = Len(old_paths) THEN "done" ELSE "restore"

Exists(p) == p \in DOMAIN files \/ p \in dirs

Init ==
    /\ pc = "start"
    /\ root = <<>>
    /\ scontent \in SpecTexts
    /\ paths = <<>>
    /\ old_paths = <<>>
    /\ new_paths = <<>>
    /\ i = 0
    /\ \E fs \in SUBSET FileLocs, withD \in BOOLEAN, withSummary \in BOOLEAN :
          /\ files = Layout(fs, withD, withSummary).files
          /\ dirs = Layout(fs, withD, withSummary).dirs
    /\ files0 = files
    /\ dirs0 = dirs
    /\ trace = <<>>

\* Line 33: std::env::current_dir, or the panic of its expect.
current_dir ==
    /\ pc = "start"
    /\ \E ok \in BOOLEAN :
          /\ trace' = Append(trace, Ev("cwd", 0, TRUE, ok))
          /\ pc' = IF ok THEN "read" ELSE "aborted"
          /\ root' = IF ok THEN Cwd ELSE root
    /\ UNCHANGED <<scontent, paths, old_paths, new_paths, i, files, dirs, files0, dirs0>>

\* Lines 34-58: the manifest is opened and read (open, metadata and read may
\* each fail; open fails when the file is missing) and parsed by file_paths,
\* which returns the paths or panics.
ReadSummary ==
    /\ pc = "read"
    /\ \E io \in BOOLEAN :
          LET present == SummaryPath(root) \in DOMAIN files
              parsed  == file_paths(scontent)
              ok      == io /\ present /\ parsed.ok
          IN  /\ trace' = IF io /\ present
                          THEN trace \o <<Ev("read", 0, present, TRUE),
                                          Ev("parse", 0, present, parsed.ok)>>
                          ELSE Append(trace, Ev("read", 0, present, FALSE))
              /\ paths' = IF ok THEN parsed.paths ELSE paths
              /\ pc' = IF ~ok THEN "aborted"
                       ELSE IF parsed.paths = <<>> THEN "spawn" ELSE "relocate"
    /\ UNCHANGED <<root, scontent, old_paths, new_paths, i, files, dirs, files0, dirs0>>

\* Lines 61-73, one iteration of the loop: the entry after those already pushed.
RelocateStep ==
    /\ pc = "relocate"
    /\ LET k   == Len(old_paths) + 1
           old == OldOf(root, paths[k])
           new == NewOf(root, paths[k])
           par == parent(new)
       IN  \E mkOk \in BOOLEAN, mvOk \in BOOLEAN :
              LET mk == IF mkOk THEN create_dir_all(files, dirs, par.v)
                        ELSE [ok |-> FALSE, dirs |-> dirs]
                  mv == IF mvOk THEN rename(files, mk.dirs, old, new)
                        ELSE [ok |-> FALSE, files |-> files, dirs |-> mk.dirs]
              IN  IF ~par.some
                  THEN /\ trace' = Append(trace, Ev("parent", k, Exists(old), FALSE))
                       /\ pc' = "aborted"
                       /\ UNCHANGED <<old_paths, new_paths, files, dirs>>
                  ELSE IF ~mk.ok
                  THEN /\ trace' = Append(trace, Ev("mkdir", k, Exists(old), FALSE))
                       /\ pc' = "aborted"
                       /\ UNCHANGED <<old_paths, new_paths, files, dirs>>
                  ELSE IF ~MoveOk(mv)
                  THEN /\ trace' = trace \o <<Ev("mkdir", k, Exists(old), TRUE),
                                              Ev("out", k, Exists(old), FALSE)>>
                       /\ pc' = "aborted"
                       /\ dirs' = mk.dirs
                       /\ UNCHANGED <<old_paths, new_paths, files>>
                  ELSE /\ trace' = trace \o <<Ev("mkdir", k, Exists(old), TRUE),
                                              Ev("out", k, Exists(old), mv.ok)>>
                       /\ files' = mv.files
                       /\ dirs' = mv.dirs
                       /\ old_paths' = Append(old_paths, old)
                       /\ new_paths' = Append(new_paths, new)
                       /\ pc' = AfterRelocate(k)
    /\ UNCHANGED <<root, scontent, paths, i, files0, dirs0>>

\* Lines 24-25: "mdbook build" is spawned, or the panic of the expect.
Spawn ==
    /\ pc = "spawn"
    /\ \E ok \in BOOLEAN :
          /\ trace' = Append(trace, Ev("spawn", 0, TRUE, ok))
          /\ pc' = IF ok THEN "wait" ELSE "aborted"
    /\ UNCHANGED <<root, scontent, paths, old_paths, new_paths, i, files, dirs, files0, dirs0>>

\* Lines 26-28 and 77: the build has run (it may have written its output), wait
\* returns, the exit status is asserted, and post_rendering asserts the lengths.
WaitRender ==
    /\ pc = "wait"
    /\ \E status \in {"success", "nonzero", "waitfail"}, wrote \in BOOLEAN :
          /\ IF wrote /\ create_dir_all(files, dirs, BookDir).ok
             THEN /\ files' = [p \in (DOMAIN files) \cup {BookFile} |->
                                  IF p = BookFile THEN BookFile ELSE files[p]]
                  /\ dirs' = dirs \cup Prefixes(BookDir)
             ELSE UNCHANGED <<files, dirs>>
          /\ IF ~StatusOk(status)
             THEN /\ trace' = Append(trace, Ev("wait", 0, TRUE, status = "success"))
                  /\ pc' = "aborted"
                  /\ i' = i
             ELSE IF Len(old_paths) # Len(new_paths)
             THEN /\ trace' = trace \o <<Ev("wait", 0, TRUE, status = "success"),
                                         Ev("assert", 0, TRUE, FALSE)>>
                  /\ pc' = "aborted"
                  /\ i' = i
             ELSE /\ trace' = Append(trace, Ev("wait", 0, TRUE, status = "success"))
                  /\ pc' = IF Len(old_paths) = 0 THEN "done" ELSE "restore"
                  /\ i' = 1
    /\ UNCHANGED <<root, scontent, paths, old_paths, new_paths, files0, dirs0>>

\* Lines 78-81, one iteration of the loop of post_rendering.
RestoreStep ==
    /\ pc = "restore"
    /\ \E mvOk \in BOOLEAN :
          LET src == Exists(new_paths[i])
              mv  == IF mvOk THEN rename(files, dirs, new_paths[i], old_paths[i])
                     ELSE [ok |-> FALSE, files |-> files, dirs |-> dirs]
          IN  /\ trace' = Append(trace, Ev("back", i, src, mv.ok))
              /\ files' = mv.files
              /\ dirs' = mv.dirs
              /\ pc' = AfterBack(mv.ok, i)
              /\ i' = IF pc' = "aborted" THEN i ELSE i + 1
    /\ UNCHANGED <<root, scontent, paths, old_paths, new_paths, files0, dirs0>>

Next ==
    \/ current_dir
    \/ ReadSummary
    \/ RelocateStep
    \/ Spawn
    \/ WaitRender
    \/ RestoreStep

Spec == Init /\ [][Next]_vars

\* ------------------------------------------------- the parser on its own

\* The bytes of the free line: the marker's, a letter, the closing bracket, a
\* carriage return and the two bytes of one non-ASCII character.
ParseBytes == {"(", ".", "/", "a", ")", "CR", "C3", "A9"}

ValidUtf8(s) ==
    \A k \in 1..Len(s) :
        /\ s[k] = "C3" => (k < Len(s) /\ s[k + 1] = "A9")
        /\ s[k] = "A9" => (k > 1 /\ s[k - 1] = "C3")

\* The lines around the free line.
CtxLines == {Entry(PathA), <<"#", " ", "a">>}

\* A free line between at most one line before and one after it, ended by LF,
\* by CR LF, or (as the last line) by nothing.
ParseTextsOf(free) ==
    {Text(pre) \o free \o end \o Text(post) :
        pre \in SeqsUpTo(CtxLines, 1),
        end \in {<<"LF">>, <<"CR", "LF">>}, post \in SeqsUpTo(CtxLines, 1)}
    \cup {Text(pre) \o free : pre \in SeqsUpTo(CtxLines, 1)}

InitParse ==
    /\ pc = "parse"
    /\ \E n \in 0..MaxLineLen : \E free \in [1..n -> ParseBytes] :
          /\ ValidUtf8(free)
          /\ scontent \in ParseTextsOf(free)
    /\ paths = <<>>
    /\ root = <<>>
    /\ old_paths = <<>>
    /\ new_paths = <<>>
    /\ i = 0
    /\ files = <<>>
    /\ dirs = {}
    /\ files0 = <<>>
    /\ dirs0 = {}
    /\ trace = <<>>

\* Lines 45-52: file_paths runs on the text, and returns or panics.
Parse ==
    /\ pc = "parse"
    /\ LET parsed == file_paths(scontent)
       IN  /\ pc' = IF parsed.ok THEN "parsed" ELSE "panicked"
           /\ paths' = parsed.paths
    /\ UNCHANGED <<root, scontent, old_paths, new_paths, i, files, dirs, files0, dirs0, trace>>

NextParse == Parse

SpecParse == InitParse /\ [][NextParse]_vars

\* ------------------------------------------------------------ claim C4

HasMarker(l) == \E k \in 1..(Len(l) - 2) : SubSeq(l, k, k + 2) = Marker

\* The first byte after the first marker of a line that has one.
AfterMarker(l) ==
    3 + CHOOSE k \in 1..(Len(l) - 2) :
            /\ SubSeq(l, k, k + 2) = Marker
            /\ \A j \in 1..(k - 1) : SubSeq(l, j, j + 2) # Marker

MarkerLines(text) == SelectSeq(lines(text), HasMarker)

\* C4: once file_paths has run on a manifest text, it has returned (not
\* panicked) one path for each of the N lines holding the marker, in line order,
\* the n-th being the bytes of the n-th such line from right after the marker to
\* just before the line's last byte.
C4_ParserReturnsEveryMarkerLine ==
    pc \in {"parsed", "panicked"} =>
        /\ pc = "parsed"
        /\ Len(paths) = Len(MarkerLines(scontent))
        /\ \A n \in 1..Len(paths) :
              LET l == MarkerLines(scontent)[n]
              IN  paths[n] = SubSeq(l, AfterMarker(l), Len(l) - 1)

\* What holds of file_paths whenever it returns: the paths are those of C4.
C4_ReturnedPathsAreExact ==
    pc = "parsed" =>
        /\ Len(paths) = Len(MarkerLines(scontent))
        /\ \A n \in 1..Len(paths) :
              LET l == MarkerLines(scontent)[n]
              IN  paths[n] = SubSeq(l, AfterMarker(l), Len(l) - 1)

\* ------------------------------------------------------ claims about runs

Related(p, q) == IsPrefix(p, q) \/ IsPrefix(q, p)

Exists0(p) == p \in DOMAIN files0 \/ p \in dirs0

\* The events of the trace for operation op.
Events(op) == {n \in 1..Len(trace) : trace[n].op = op}

Did(op, k) == \E n \in 1..Len(trace) : trace[n].op = op /\ trace[n].k = k /\ trace[n].ok

\* The last event is a failure of operation op.
FailedIn(op) == trace # <<>> /\ trace[Len(trace)].op = op /\ ~trace[Len(trace)].ok

\* The manifest has been read and parsed.
Parsed == Len(trace) >= 3 /\ trace[3].op = "parse" /\ trace[3].ok

\* The filesystem apart from what the renderer wrote.
OwnFiles(f) == [p \in (DOMAIN f) \ {BookFile} |-> f[p]]
OwnDirs(d) == d \ {BookDir}

\* Every manifest-referenced file is a regular file at its original location
\* before the run.
ValidLayout ==
    \A k \in 1..Len(paths) : OldOf(Cwd, paths[k]) \in DOMAIN files0

\* C1: after a run in which before_rendering, the build and post_rendering all
\* succeeded on a valid layout, every manifest-referenced file is the file it
\* was at its original path, and files and directories are those of before the
\* run apart from the renderer's output.
C1_RoundTripRestoresTree ==
    (pc = "done" /\ ValidLayout) =>
        /\ \A k \in 1..Len(paths) :
              /\ old_paths[k] \in DOMAIN files
              /\ files[old_paths[k]] = files0[old_paths[k]]
        /\ OwnFiles(files) = files0
        /\ OwnDirs(dirs) = dirs0

StageOf(op) ==
    CASE op \in {"cwd", "read", "parse", "parent", "mkdir", "out"} -> 1
      [] op \in {"spawn", "wait"} -> 2
      [] OTHER -> 3

\* The stage the run is in: 4 is complete.
StageOfPc ==
    CASE pc \in {"start", "read", "relocate"} -> 1
      [] pc \in {"spawn", "wait"} -> 2
      [] pc = "restore" -> 3
      [] pc = "done" -> 4
      [] OTHER -> 0

\* C3: the build is spawned only after every manifest entry has been moved
\* successfully, a move-back is attempted only after the build has exited
\* successfully, the build is spawned at most once, and the operations of the
\* run are in stage order (relocate, render, restore), no stage resumed after a
\* later one began; the run is complete only with all three behind it.
C3_StagesInOrder ==
    /\ \A n \in Events("spawn") :
          /\ \E m \in 1..(n - 1) : trace[m].op = "read" /\ trace[m].ok
          /\ \A k \in 1..Len(paths) :
                \E m \in 1..(n - 1) : trace[m].op = "out" /\ trace[m].k = k /\ trace[m].ok
    /\ \A n \in Events("back") :
          \E m \in 1..(n - 1) : trace[m].op = "wait" /\ trace[m].ok
    /\ Cardinality(Events("spawn")) <= 1
    /\ \A m, n \in 1..Len(trace) : m < n => StageOf(trace[m].op) <= StageOf(trace[n].op)
    /\ \A n \in 1..Len(trace) : StageOfPc # 0 => StageOf(trace[n].op) <= StageOfPc
    /\ pc = "done" => Did("wait", 0)

C3_Witness ==
    /\ pc = "done"
    /\ Len(paths) = MaxLines
    /\ Cardinality(Events("back")) = MaxLines

\* The relocation loop has aborted at entry k: its create_dir_all or its rename
\* failed.
RelocationFailedAt(k) ==
    /\ FailedIn("mkdir") \/ FailedIn("out")
    /\ trace[Len(trace)].k = k

ZeroMarkerLines(text) == ~HasMarker(text)

\* C6: for a manifest none of whose lines holds the marker, once it is read
\* the path lists are empty at every later point, no directory creation, move
\* or move-back is ever attempted, and files and directories are those of
\* before the run apart from the renderer's output.
C6_NoMarkerNoMoves ==
    (Len(trace) >= 2 /\ trace[2].op = "read" /\ trace[2].ok /\ ZeroMarkerLines(scontent)) =>
        /\ Parsed
        /\ paths = <<>> /\ old_paths = <<>> /\ new_paths = <<>>
        /\ pc \in {"spawn", "wait", "done", "aborted"}
        /\ \A n \in 1..Len(trace) : trace[n].op \in {"cwd", "read", "parse", "spawn", "wait"}
        /\ OwnFiles(files) = files0
        /\ OwnDirs(dirs) = dirs0

C6_Witness ==
    /\ pc = "done"
    /\ ZeroMarkerLines(scontent)
    /\ MarkerLines(scontent) = <<>>
    /\ Len(lines(scontent)) = MaxLines
    /\ BookFile \in DOMAIN files

AllSucceeded ==
    /\ Did("cwd", 0) /\ Did("read", 0) /\ Did("parse", 0)
    /\ Did("spawn", 0) /\ Did("wait", 0)
    /\ \A k \in 1..Len(paths) : Did("mkdir", k) /\ Did("out", k) /\ Did("back", k)

\* C8: the run is complete exactly when every step was taken and succeeded; a
\* failed step is the last operation of the run, which is then aborted.
C8_FailureIsFatal ==
    /\ pc = "done" <=> AllSucceeded
    /\ \A n \in 1..Len(trace) : ~trace[n].ok => (n = Len(trace) /\ pc = "aborted")
    /\ pc = "aborted" => (trace # <<>> /\ ~trace[Len(trace)].ok)

\* Aborted in the middle of the restoration, after a complete relocation.
C8_Witness ==
    /\ pc = "aborted"
    /\ FailedIn("back")
    /\ trace[Len(trace)].k = 2
    /\ Len(paths) = 3

\* C9: the move-backs are attempted in list order, and once the move-back of
\* entry k has failed the run is aborted with something at the original
\* location of every entry before k and at the temporary location of entry k
\* and of every entry after it, and no move-back attempted after k.
C9_PartialRestoration ==
    /\ \A m, n \in Events("back") : m < n => trace[n].k = trace[m].k + (n - m)
    /\ \A k \in 1..Len(old_paths) :
          (FailedIn("back") /\ trace[Len(trace)].k = k) =>
              /\ pc = "aborted"
              /\ \A j \in 1..(k - 1) : Exists(old_paths[j])
              /\ \A j \in k..Len(new_paths) : Exists(new_paths[j])
              /\ \A n \in Events("back") : trace[n].k <= k

\* The premises of C10: the manifest paths are pairwise distinct, no temporary
\* location is an original location, and no file lies at a temporary location
\* before the run.
C10_Premises ==
    LET mp == paths
    IN  /\ \A j, k \in 1..Len(mp) : j # k => mp[j] # mp[k]
        /\ \A j, k \in 1..Len(mp) : NewOf(Cwd, mp[j]) # OldOf(Cwd, mp[k])
        /\ \A k \in 1..Len(mp) : NewOf(Cwd, mp[k]) \notin DOMAIN files0

\* The amended premises: no temporary location is an original location, or
\* above or below one.
C10_PremisesAmended ==
    LET mp == paths
    IN  /\ \A j, k \in 1..Len(mp) : j # k => mp[j] # mp[k]
        /\ \A j, k \in 1..Len(mp) : ~Related(NewOf(Cwd, mp[j]), OldOf(Cwd, mp[k]))
        /\ \A k \in 1..Len(mp) : NewOf(Cwd, mp[k]) \notin DOMAIN files0

\* Each manifest-referenced file of before the run is at exactly one of its
\* original and its temporary location, and at the temporary one while the
\* build runs.  (paths is empty until the manifest is parsed; nothing has been
\* moved by then.)
C10_Conserved ==
    \A k \in 1..Len(paths) :
        LET old == OldOf(Cwd, paths[k])
            new == NewOf(Cwd, paths[k])
            atOld == old \in DOMAIN files /\ files[old] = files0[old]
            atNew == new \in DOMAIN files /\ files[new] = files0[old]
        IN  old \in DOMAIN files0 =>
                /\ atOld # atNew
                /\ pc = "wait" => atNew

\* C10 as stated: when the manifest paths are pairwise distinct, no temporary
\* location coincides with an original location and no file lies at a
\* temporary location before the run, then in every state, aborted ones
\* included, each manifest-referenced file of before the run is at exactly one
\* of its original and its temporary location, and at the temporary one while
\* the build runs.
C10_FilesConserved == C10_Premises => C10_Conserved

\* C10 amended: the same conservation, when moreover no temporary location is
\* inside or above an original location (so that no directory a rename moves,
\* or create_dir_all makes, carries or hides a file of another entry).
C10_FilesConservedUnrelated == C10_PremisesAmended => C10_Conserved

\* The build runs with two files of the manifest at their temporary locations.
C10_Witness ==
    /\ C10_PremisesAmended
    /\ pc = "wait"
    /\ Cardinality({k \in 1..Len(paths) : OldOf(Cwd, paths[k]) \in DOMAIN files0}) >= 2

\* What holds of a complete run when no temporary location is an original
\* location or above or below one, and no file lies at a temporary location
\* before the run: the regular files are those of before the run, each where it
\* was, and no directory of before the run is missing.
C1_FilesRestoredWhenUnrelated ==
    (pc = "done" /\ C10_PremisesAmended) =>
        /\ OwnFiles(files) = files0
        /\ dirs0 \subseteq dirs

====
